---- MODULE Spec2Model ----
(***************************************************************************)
(* Model of osvr::renderkit::DistortionParameters                          *)
(* (src/osvr/RenderKit/DistortionParameters.h).                            *)
(*                                                                         *)
(* A client holds one OSVRDisplayConfiguration and builds                  *)
(* DistortionParameters objects from it, either with the two-argument      *)
(* constructor (osvrParams, eye) or with the default constructor.  The     *)
(* model keeps the configuration, the log of the constructions made so     *)
(* far, the lines written to std::cerr and whether the process is still    *)
(* running.                                                                *)
(*                                                                         *)
(* Numbers.  A floating-point value is modelled as an integer count of     *)
(* double-precision steps.  Only every FloatStep-th count is a value a     *)
(* float can hold; static_cast<float> rounds to the nearest such value,    *)
(* ties to even.  0.5f is Half, 1 is One.                                  *)
(***************************************************************************)
EXTENDS Integers, Sequences, FiniteSets, TLC

VARIABLES osvrParams, calls, cerr, pc

vars == <<osvrParams, calls, cerr, pc>>

----------------------------------------------------------------------------
(* Bounds of the model *)

\* number of constructions one behaviour makes
MaxCalls == 2

\* largest number of entries of osvrParams.getEyes()
MaxEyes == 2

----------------------------------------------------------------------------
(* Number encoding *)

\* spacing of the float-representable values among the double-precision ones
FloatStep == 2

\* 0.5f
Half == 4

\* 1 (as float)
One == 8

Two == One + One

\* static_cast<float>(d): nearest float, ties to even
ToFloat(d) ==
    LET lo == (d \div FloatStep) * FloatStep
    IN  IF d = lo THEN d
        ELSE IF 2 * (d - lo) < FloatStep THEN lo
        ELSE IF 2 * (d - lo) > FloatStep THEN lo + FloatStep
        ELSE IF (lo \div FloatStep) % 2 = 0 THEN lo
        ELSE lo + FloatStep

----------------------------------------------------------------------------
(* The display configuration (OSVRDisplayConfiguration), as the constructor *)
(* reads it through its getters                                             *)

\* OSVRDisplayConfiguration::DistortionType, with one value for every type
\* the constructor does not recognise
DistortionTypes ==
    {"RGB_SYMMETRIC_POLYNOMIALS", "MONO_POINT_SAMPLES", "RGB_POINT_SAMPLES",
     "OTHER"}

\* getDistortionTypeString() for a given getDistortionType()
TypeStrings(t) ==
    CASE t = "RGB_SYMMETRIC_POLYNOMIALS" -> {"rgb_symmetric_polynomials"}
      [] t = "MONO_POINT_SAMPLES"        -> {"mono_point_samples"}
      [] t = "RGB_POINT_SAMPLES"         -> {"rgb_point_samples"}
      [] OTHER                           -> {"k1_legacy", ""}

\* values of getDistortionDistanceScaleX() / ...Y()
ScaleXChoices == {One, Two}
ScaleYChoices == {Two}

\* values of getDistortionPolynomalRed() / Green() / Blue(): coefficient
\* sequences, the empty one included
PolynomialChoices == {<< >>, <<One, 0, Two>>}

\* one entry of getEyes(): the eye's centre of projection, in double precision
\* (7 is not representable as a float)
EyeInfos == [m_CenterProjX : {Half, 7}, m_CenterProjY : {6}]

\* getEyes(): between 0 and MaxEyes entries
EyeLists == UNION {[1..n -> EyeInfos] : n \in 0..MaxEyes}

\* getDistortionMonoPointMeshes() and getDistortionRGBPointMeshes(): opaque
\* mesh descriptions
MonoMeshChoices == {<< >>, <<"monoMesh">>}
RGBMeshChoices == {<< >>, <<"rgbMesh">>}

DisplayConfigurations ==
    { c \in [ DistortionType : DistortionTypes,
              DistortionTypeString : {"rgb_symmetric_polynomials",
                  "mono_point_samples", "rgb_point_samples", "k1_legacy", ""},
              DistortionDistanceScaleX : ScaleXChoices,
              DistortionDistanceScaleY : ScaleYChoices,
              DistortionPolynomalRed : PolynomialChoices,
              DistortionPolynomalGreen : PolynomialChoices,
              DistortionPolynomalBlue : PolynomialChoices,
              Eyes : EyeLists,
              DistortionMonoPointMeshes : MonoMeshChoices,
              DistortionRGBPointMeshes : RGBMeshChoices ] :
        c.DistortionTypeString \in TypeStrings(c.DistortionType) }

\* the eye indices a caller passes (size_t), one past the longest list included
EyeIndices == 0..MaxEyes

----------------------------------------------------------------------------
(* DistortionParameters *)

\* variant of the default constructor that asks for no triangles
DistortionParameters_NoTriangles ==
    [ m_type |-> "rgb_symmetric_polynomials",
      m_desiredTriangles |-> 0,
      m_monoPointSamples |-> << >>,
      m_rgbPointSamples |-> << >>,
      m_distortionPolynomialRed |-> <<0, One>>,
      m_distortionPolynomialGreen |-> <<0, One>>,
      m_distortionPolynomialBlue |-> <<0, One>>,
      m_distortionCOP |-> <<Half, Half>>,
      m_distortionD |-> <<One, One>> ]

\* DistortionParameters::DistortionParameters()
DistortionParameters ==
    [ m_type |-> "rgb_symmetric_polynomials",
      m_desiredTriangles |-> 2,
      m_monoPointSamples |-> << >>,
      m_rgbPointSamples |-> << >>,
      m_distortionPolynomialRed |-> <<0, One>>,
      m_distortionPolynomialGreen |-> <<0, One>>,
      m_distortionPolynomialBlue |-> <<0, One>>,
      m_distortionCOP |-> <<Half, Half>>,
      m_distortionD |-> <<One, One>> ]

\* variant of the polynomial branch that takes the scales in the order Y, X
PolynomialFields_ScaleSwapped(this, params) ==
    [this EXCEPT
        !.m_type = "rgb_symmetric_polynomials",
        !.m_distortionD = <<params.DistortionDistanceScaleY,
                            params.DistortionDistanceScaleX>>,
        !.m_distortionPolynomialRed = params.DistortionPolynomalRed,
        !.m_distortionPolynomialGreen = params.DistortionPolynomalGreen,
        !.m_distortionPolynomialBlue = params.DistortionPolynomalBlue]

\* the RGB_SYMMETRIC_POLYNOMIALS branch up to the reads of getEyes()[eye]
PolynomialFields(this, params) ==
    [this EXCEPT
        !.m_type = "rgb_symmetric_polynomials",
        !.m_distortionD = <<params.DistortionDistanceScaleX,
                            params.DistortionDistanceScaleY>>,
        !.m_distortionPolynomialRed = params.DistortionPolynomalRed,
        !.m_distortionPolynomialGreen = params.DistortionPolynomalGreen,
        !.m_distortionPolynomialBlue = params.DistortionPolynomalBlue]

\* variant that stores the eye's centre in m_distortionD as well
CenterOfProjection_AlsoD(this, eyeInfo) ==
    [this EXCEPT
        !.m_distortionCOP = <<ToFloat(eyeInfo.m_CenterProjX),
                              ToFloat(eyeInfo.m_CenterProjY)>>,
        !.m_distortionD = <<ToFloat(eyeInfo.m_CenterProjX),
                            ToFloat(eyeInfo.m_CenterProjY)>>]

\* the rest of that branch: COP from the eye entry that was read
CenterOfProjection(this, eyeInfo) ==
    [this EXCEPT
        !.m_distortionCOP = <<ToFloat(eyeInfo.m_CenterProjX),
                              ToFloat(eyeInfo.m_CenterProjY)>>]

\* variant of the mono branch that sets the tag of the RGB branch
MonoPointSamples_WrongTag(this, params) ==
    [this EXCEPT
        !.m_type = "rgb_point_samples",
        !.m_monoPointSamples = params.DistortionMonoPointMeshes]

\* variant of the mono branch that copies the RGB meshes as well
MonoPointSamples_AlsoRgb(this, params) ==
    [this EXCEPT
        !.m_type = "mono_point_samples",
        !.m_monoPointSamples = params.DistortionMonoPointMeshes,
        !.m_rgbPointSamples = params.DistortionRGBPointMeshes]

\* the MONO_POINT_SAMPLES branch
MonoPointSamples(this, params) ==
    [this EXCEPT
        !.m_type = "mono_point_samples",
        !.m_monoPointSamples = params.DistortionMonoPointMeshes]

\* variant of the RGB branch that copies the mono meshes
RgbPointSamples_FromMono(this, params) ==
    [this EXCEPT
        !.m_type = "rgb_point_samples",
        !.m_rgbPointSamples = params.DistortionMonoPointMeshes]

\* the RGB_POINT_SAMPLES branch
RgbPointSamples(this, params) ==
    [this EXCEPT
        !.m_type = "rgb_point_samples",
        !.m_rgbPointSamples = params.DistortionRGBPointMeshes]

\* variant of the diagnostic that leaves the type string out
Diagnostic_Unnamed(params) ==
    << <<"DistortionParameters::DistortionParameters(): Unrecognized distortion correction type (",
         "), ignoring">> >>

\* variant of the final else branch that writes nothing
Diagnostic_Silent(params) == << >>

\* the line the final else branch writes to std::cerr
Diagnostic(params) ==
    << <<"DistortionParameters::DistortionParameters(): Unrecognized distortion correction type (",
         params.DistortionTypeString,
         "), ignoring">> >>

\* whether osvrParams.getEyes()[eye] reads outside the vector
OutOfBounds(params, eye) == eye >= Len(params.Eyes)

\* what the memory past the end of the vector can hold: a former eye entry
\* or other bits (here zeroes)
StrayEyeInfos == EyeInfos \cup {[m_CenterProjX |-> 0, m_CenterProjY |-> 0]}

\* what osvrParams.getEyes()[eye] can give: the entry when eye names one;
\* otherwise whatever lies at that address, when the read does not fault
EyeReads(params, eye) ==
    IF OutOfBounds(params, eye) THEN StrayEyeInfos ELSE {params.Eyes[eye + 1]}

\* DistortionParameters::DistortionParameters(osvrParams, eye): the outcomes
\* of one construction
Construct(params, eye) ==
    LET this == DistortionParameters
    IN  IF params.DistortionType = "RGB_SYMMETRIC_POLYNOMIALS"
        THEN {[status |-> "ok",
               rec |-> CenterOfProjection(PolynomialFields(this, params), e),
               out |-> << >>] : e \in EyeReads(params, eye)}
             \cup
             (IF OutOfBounds(params, eye)
              THEN {[status |-> "aborted",
                     rec |-> PolynomialFields(this, params),
                     out |-> << >>]}
              ELSE {})
        ELSE IF params.DistortionType = "MONO_POINT_SAMPLES"
        THEN {[status |-> "ok", rec |-> MonoPointSamples(this, params),
               out |-> << >>]}
        ELSE IF params.DistortionType = "RGB_POINT_SAMPLES"
        THEN {[status |-> "ok", rec |-> RgbPointSamples(this, params),
               out |-> << >>]}
        ELSE {[status |-> "ok", rec |-> this, out |-> Diagnostic(params)]}

----------------------------------------------------------------------------
(* The state machine *)

Init ==
    /\ osvrParams \in DisplayConfigurations
    /\ calls = << >>
    /\ cerr = << >>
    /\ pc = "running"

\* DistortionParameters p(osvrParams, eye);
CallConstruct ==
    /\ pc = "running"
    /\ Len(calls) < MaxCalls
    /\ \E eye \in EyeIndices :
         \E o \in Construct(osvrParams, eye) :
            /\ calls' = Append(calls, [op |-> "Construct", eye |-> eye,
                                       status |-> o.status, rec |-> o.rec])
            /\ cerr' = cerr \o o.out
            /\ pc' = IF o.status = "ok" THEN "running" ELSE "aborted"
    /\ UNCHANGED osvrParams

\* DistortionParameters p;
CallDefault ==
    /\ pc = "running"
    /\ Len(calls) < MaxCalls
    /\ calls' = Append(calls, [op |-> "Default", eye |-> 0,
                               status |-> "ok", rec |-> DistortionParameters])
    /\ UNCHANGED <<osvrParams, cerr, pc>>

Next == CallConstruct \/ CallDefault

Spec == Init /\ [][Next]_vars

----------------------------------------------------------------------------
(* Properties *)

\* the constructions of the log made with (osvrParams, eye)
ConstructCalls == {i \in DOMAIN calls : calls[i].op = "Construct"}

\* the constructions of the log made with no argument
DefaultCalls == {i \in DOMAIN calls : calls[i].op = "Default"}

Recognized ==
    osvrParams.DistortionType \in
        {"RGB_SYMMETRIC_POLYNOMIALS", "MONO_POINT_SAMPLES", "RGB_POINT_SAMPLES"}

\* the "no distortion" record, written out
NoDistortion ==
    [ m_type |-> "rgb_symmetric_polynomials",
      m_desiredTriangles |-> 2,
      m_monoPointSamples |-> << >>,
      m_rgbPointSamples |-> << >>,
      m_distortionPolynomialRed |-> <<0, 8>>,
      m_distortionPolynomialGreen |-> <<0, 8>>,
      m_distortionPolynomialBlue |-> <<0, 8>>,
      m_distortionCOP |-> <<4, 4>>,
      m_distortionD |-> <<8, 8>> ]

\* C1: when the distortion type is not one of the three recognized ones,
\* every construction from the configuration, whatever the eye index,
\* completes with a record equal to the default record in every field, and
\* writes one diagnostic that contains the configuration's type string.
C1_UnrecognizedGivesDefault ==
    ~Recognized =>
        /\ \A i \in ConstructCalls :
              /\ calls[i].status = "ok"
              /\ calls[i].rec = NoDistortion
        /\ Len(cerr) = Cardinality(ConstructCalls)
        /\ \A k \in DOMAIN cerr :
              \E j \in DOMAIN cerr[k] :
                  cerr[k][j] = osvrParams.DistortionTypeString

\* C1 witness: an unrecognized configuration with a non-empty type string
\* was constructed from, with an eye index that names no eye.
C1_Witness ==
    /\ ~Recognized
    /\ osvrParams.DistortionTypeString = "k1_legacy"
    /\ \E i \in ConstructCalls : calls[i].eye >= Len(osvrParams.Eyes)
    /\ cerr # << >>

\* C2: every construction completes and yields a record; the process never
\* aborts, for any configuration and any eye index.
C2_ConstructionAlwaysSucceeds ==
    /\ pc = "running"
    /\ \A i \in DOMAIN calls : calls[i].status = "ok"

\* C3 (as stated): on the symmetric-polynomial path with an eye index that
\* names an eye, the record has kind rgb_symmetric_polynomials, scale (X, Y),
\* the three polynomials of the configuration, and centerOfProjection equal
\* to the (x, y) of the eye at the index.
C3_PolynomialCopiesExactly ==
    osvrParams.DistortionType = "RGB_SYMMETRIC_POLYNOMIALS" =>
        \A i \in ConstructCalls :
            calls[i].eye < Len(osvrParams.Eyes) =>
                /\ calls[i].status = "ok"
                /\ calls[i].rec.m_type = "rgb_symmetric_polynomials"
                /\ calls[i].rec.m_distortionD =
                       <<osvrParams.DistortionDistanceScaleX,
                         osvrParams.DistortionDistanceScaleY>>
                /\ calls[i].rec.m_distortionPolynomialRed =
                       osvrParams.DistortionPolynomalRed
                /\ calls[i].rec.m_distortionPolynomialGreen =
                       osvrParams.DistortionPolynomalGreen
                /\ calls[i].rec.m_distortionPolynomialBlue =
                       osvrParams.DistortionPolynomalBlue
                /\ calls[i].rec.m_distortionCOP =
                       <<osvrParams.Eyes[calls[i].eye + 1].m_CenterProjX,
                         osvrParams.Eyes[calls[i].eye + 1].m_CenterProjY>>

\* C3 (amended): as above, except that centerOfProjection holds the (x, y) of
\* the eye at the index each converted to single precision; it equals them
\* exactly only when they are representable in single precision.
C3_PolynomialCopiesNarrowed ==
    osvrParams.DistortionType = "RGB_SYMMETRIC_POLYNOMIALS" =>
        \A i \in ConstructCalls :
            calls[i].eye < Len(osvrParams.Eyes) =>
                /\ calls[i].status = "ok"
                /\ calls[i].rec.m_type = "rgb_symmetric_polynomials"
                /\ calls[i].rec.m_distortionD =
                       <<osvrParams.DistortionDistanceScaleX,
                         osvrParams.DistortionDistanceScaleY>>
                /\ calls[i].rec.m_distortionPolynomialRed =
                       osvrParams.DistortionPolynomalRed
                /\ calls[i].rec.m_distortionPolynomialGreen =
                       osvrParams.DistortionPolynomalGreen
                /\ calls[i].rec.m_distortionPolynomialBlue =
                       osvrParams.DistortionPolynomalBlue
                /\ calls[i].rec.m_distortionCOP =
                       <<ToFloat(osvrParams.Eyes[calls[i].eye + 1].m_CenterProjX),
                         ToFloat(osvrParams.Eyes[calls[i].eye + 1].m_CenterProjY)>>
                /\ \A c \in {1, 2} :
                       calls[i].rec.m_distortionCOP[c] % FloatStep = 0

\* C3 witness: a polynomial configuration with two different eyes, different
\* scales, an empty red polynomial and a non-empty blue one, constructed from
\* for its second eye, whose x is not representable in single precision.
C3_Witness ==
    /\ osvrParams.DistortionType = "RGB_SYMMETRIC_POLYNOMIALS"
    /\ Len(osvrParams.Eyes) = 2
    /\ osvrParams.Eyes[1] # osvrParams.Eyes[2]
    /\ osvrParams.Eyes[2].m_CenterProjX = 7
    /\ osvrParams.DistortionDistanceScaleX # osvrParams.DistortionDistanceScaleY
    /\ osvrParams.DistortionPolynomalRed = << >>
    /\ osvrParams.DistortionPolynomalBlue # << >>
    /\ \E i \in ConstructCalls : calls[i].eye = 1 /\ calls[i].status = "ok"

\* C4: on the mono-point-samples path every construction, whatever the eye
\* index, completes with kind mono_point_samples, monoPointSamples equal to
\* the configuration's mono collection, and every other field at its default.
C4_MonoCopiesMonoOnly ==
    osvrParams.DistortionType = "MONO_POINT_SAMPLES" =>
        \A i \in ConstructCalls :
            /\ calls[i].status = "ok"
            /\ calls[i].rec =
                 [NoDistortion EXCEPT
                    !.m_type = "mono_point_samples",
                    !.m_monoPointSamples = osvrParams.DistortionMonoPointMeshes]

\* C4 witness: a mono configuration that also carries RGB meshes, polynomials,
\* an eye and a scale other than the default was constructed from.
C4_Witness ==
    /\ osvrParams.DistortionType = "MONO_POINT_SAMPLES"
    /\ osvrParams.DistortionMonoPointMeshes # << >>
    /\ osvrParams.DistortionRGBPointMeshes # << >>
    /\ osvrParams.DistortionPolynomalRed # << >>
    /\ Len(osvrParams.Eyes) = 1
    /\ \E i \in ConstructCalls : calls[i].eye = 0 /\ calls[i].status = "ok"

\* C5: on the RGB-point-samples path every construction, whatever the eye
\* index, completes with kind rgb_point_samples and rgbPointSamples equal to
\* the configuration's RGB collection.
C5_RgbCopiesRgb ==
    osvrParams.DistortionType = "RGB_POINT_SAMPLES" =>
        \A i \in ConstructCalls :
            /\ calls[i].status = "ok"
            /\ calls[i].rec.m_type = "rgb_point_samples"
            /\ calls[i].rec.m_rgbPointSamples =
                   osvrParams.DistortionRGBPointMeshes

\* C5 witness: an RGB configuration whose RGB collection is not empty and
\* whose mono collection is, was constructed from.
C5_Witness ==
    /\ osvrParams.DistortionType = "RGB_POINT_SAMPLES"
    /\ osvrParams.DistortionRGBPointMeshes # << >>
    /\ osvrParams.DistortionMonoPointMeshes = << >>
    /\ \E i \in ConstructCalls : calls[i].status = "ok"

\* C6: the default constructor yields kind rgb_symmetric_polynomials, the
\* three polynomials [0, 1], center (0.5, 0.5), scale (1, 1), two desired
\* triangles and both point-sample collections empty.
C6_DefaultIsNoDistortion ==
    \A i \in DefaultCalls :
        /\ calls[i].status = "ok"
        /\ calls[i].rec.m_type = "rgb_symmetric_polynomials"
        /\ calls[i].rec.m_distortionPolynomialRed = <<0, 8>>
        /\ calls[i].rec.m_distortionPolynomialGreen = <<0, 8>>
        /\ calls[i].rec.m_distortionPolynomialBlue = <<0, 8>>
        /\ calls[i].rec.m_distortionCOP = <<4, 4>>
        /\ calls[i].rec.m_distortionD = <<8, 8>>
        /\ calls[i].rec.m_desiredTriangles = 2
        /\ calls[i].rec.m_monoPointSamples = << >>
        /\ calls[i].rec.m_rgbPointSamples = << >>
        /\ DOMAIN calls[i].rec = DOMAIN NoDistortion

\* C6 witness: the default constructor has run.
C6_Witness == DefaultCalls # {}

\* the polynomial variant's fields are the default ones
PolynomialPayloadDefault(rec) ==
    /\ rec.m_distortionPolynomialRed = <<0, 8>>
    /\ rec.m_distortionPolynomialGreen = <<0, 8>>
    /\ rec.m_distortionPolynomialBlue = <<0, 8>>
    /\ rec.m_distortionCOP = <<4, 4>>
    /\ rec.m_distortionD = <<8, 8>>

\* C7: in every record a completed construction yields, the fields of the
\* variants that kind does not select are at their default or empty values.
C7_OtherVariantsDefault ==
    \A i \in DOMAIN calls :
        calls[i].status = "ok" =>
            /\ calls[i].rec.m_type = "mono_point_samples" =>
                  /\ calls[i].rec.m_rgbPointSamples = << >>
                  /\ PolynomialPayloadDefault(calls[i].rec)
            /\ calls[i].rec.m_type = "rgb_point_samples" =>
                  /\ calls[i].rec.m_monoPointSamples = << >>
                  /\ PolynomialPayloadDefault(calls[i].rec)
            /\ calls[i].rec.m_type = "rgb_symmetric_polynomials" =>
                  /\ calls[i].rec.m_monoPointSamples = << >>
                  /\ calls[i].rec.m_rgbPointSamples = << >>

\* C7 witness: a record of kind mono_point_samples was built from a
\* configuration whose two mesh collections and polynomials are all set.
C7_Witness ==
    /\ osvrParams.DistortionMonoPointMeshes # << >>
    /\ osvrParams.DistortionRGBPointMeshes # << >>
    /\ osvrParams.DistortionPolynomalGreen # << >>
    /\ Len(osvrParams.Eyes) = 2
    /\ \E i \in ConstructCalls :
          /\ calls[i].status = "ok"
          /\ calls[i].rec.m_type = "mono_point_samples"
          /\ calls[i].rec.m_monoPointSamples # << >>

\* C8: two completed constructions from the configuration with any two eye
\* indices yield equal records on the mono, RGB and unrecognized paths, and
\* records that differ in centerOfProjection at most on the polynomial path.
C8_EyeOnlyAffectsCenter ==
    \A i, j \in ConstructCalls :
        (calls[i].status = "ok" /\ calls[j].status = "ok") =>
            IF osvrParams.DistortionType = "RGB_SYMMETRIC_POLYNOMIALS"
            THEN [calls[i].rec EXCEPT
                     !.m_distortionCOP = calls[j].rec.m_distortionCOP]
                 = calls[j].rec
            ELSE calls[i].rec = calls[j].rec

\* C8 witness: a polynomial configuration was constructed from twice, with
\* two eye indices that name eyes, and the two centers differ.
C8_Witness ==
    /\ osvrParams.DistortionType = "RGB_SYMMETRIC_POLYNOMIALS"
    /\ Len(calls) = 2
    /\ ConstructCalls = {1, 2}
    /\ calls[1].eye # calls[2].eye
    /\ calls[1].eye < Len(osvrParams.Eyes)
    /\ calls[2].eye < Len(osvrParams.Eyes)
    /\ calls[1].rec.m_distortionCOP # calls[2].rec.m_distortionCOP

\* C9: a step writes to the error stream exactly when it is a construction
\* from a configuration of unrecognized type (then one line); no step changes
\* the configuration.
C9_OnlyDiagnosticSideEffect ==
    [][ /\ osvrParams' = osvrParams
        /\ (cerr' # cerr) <=>
              (calls'[Len(calls')].op = "Construct" /\ ~Recognized)
        /\ Len(cerr') <= Len(cerr) + 1
        /\ SubSeq(cerr', 1, Len(cerr)) = cerr ]_vars

\* C9 witness: from a configuration of unrecognized type, one construction
\* and then one default construction ran, and one line was written.
C9_Witness ==
    /\ ~Recognized
    /\ Len(calls) = 2
    /\ calls[1].op = "Construct"
    /\ calls[2].op = "Default"
    /\ Len(cerr) = 1

\* C10: two completed constructions from the configuration with the same eye
\* index yield records equal in every field.
C10_SameInputsSameRecord ==
    \A i, j \in ConstructCalls :
        (/\ calls[i].eye = calls[j].eye
         /\ calls[i].status = "ok"
         /\ calls[j].status = "ok") =>
            calls[i].rec = calls[j].rec

====
